---- MODULE Spec2Model ----
(***************************************************************************)
(* wikibee configuration subsystem: the config-file loader and the config  *)
(* store of src/wikibee/config.py, and the settings resolver and the       *)
(* verbose applier of the CLI entry point (wikibee/cli.py, which is        *)
(* exercised by src/tests/test_config.py and described by spec.md 4.4 and  *)
(* 4.5).                                                                   *)
(***************************************************************************)
EXTENDS Integers, Sequences, FiniteSets, TLC

VARIABLES fs, cli, env, pc, config, stdout, stderr, exc, resolved,
          logLevel, logWrites, logReads, getLog

vars == <<fs, cli, env, pc, config, stdout, stderr, exc, resolved,
          logLevel, logWrites, logReads, getLog>>

(***************************************************************************)
(* Bounds of the model.                                                    *)
(***************************************************************************)
\* how many source entries (CLI flags passed, environment variables set,
\* keys or scalar top-level names written in the file) one run may have
MaxSupplied == 3
\* how many get calls a client of the store makes
MaxGets == 2
\* how many keys and scalar top-level names the file of the store's client has
MaxKeys == 2
\* how many times other subsystems read the log level
MaxReads == 2

(***************************************************************************)
(* Values.  A Python value is a tagged record; text is a sequence of       *)
(* one-character strings so that parsing it is a computation.              *)
(***************************************************************************)
None == [tag |-> "none", i |-> 0, b |-> FALSE, s |-> <<>>]
IntV(n) == [tag |-> "int", i |-> n, b |-> FALSE, s |-> <<>>]
BoolV(x) == [tag |-> "bool", i |-> 0, b |-> x, s |-> <<>>]
StrV(t) == [tag |-> "str", i |-> 0, b |-> FALSE, s |-> t]

\* Dict[str, Any]: a function whose domain is the set of keys present
EmptyDict == [k \in {} |-> None]
\* a top-level value of the parsed document: a table (a dict) or anything else
Table(kv) == [isTable |-> TRUE, kv |-> kv, v |-> None]
Scalar(v) == [isTable |-> FALSE, kv |-> EmptyDict, v |-> v]

(***************************************************************************)
(* The config store.                                                       *)
(***************************************************************************)
\* WikibeeConfig(data): the object has the one attribute _data
WikibeeConfig(data) == [_data |-> data]

\* get with the usual "x.get(k) or default" slip: a falsy stored value
\* (False, 0, "") is replaced by the default
get_ordefault(self, section, key, default) ==
    IF section \in DOMAIN self._data /\ ~self._data[section].isTable
    THEN [exc |-> "AttributeError", val |-> None]
    ELSE LET sec == IF section \in DOMAIN self._data
                    THEN self._data[section].kv ELSE EmptyDict
             val == IF key \in DOMAIN sec THEN sec[key] ELSE None
         IN  [exc |-> "none",
              val |-> IF val \in {None, BoolV(FALSE), IntV(0), StrV(<<>>)}
                      THEN default ELSE val]

\* self._data.get(section, {}).get(key, default): the outer get yields the
\* value bound to section, or {} when section is absent; the inner .get is an
\* attribute of dicts only, so a non-table value raises AttributeError
get(self, section, key, default) ==
    LET outer == IF section \in DOMAIN self._data
                 THEN self._data[section] ELSE Table(EmptyDict)
    IN  IF ~outer.isTable
        THEN [exc |-> "AttributeError", val |-> None]
        ELSE [exc |-> "none",
              val |-> IF key \in DOMAIN outer.kv THEN outer.kv[key] ELSE default]

\* get written with setdefault: an absent section is inserted as {}
data_after_get_setdefault(self, section, key, default) ==
    IF section \in DOMAIN self._data
    THEN self._data
    ELSE [n \in DOMAIN self._data \cup {section} |->
            IF n = section THEN Table(EmptyDict) ELSE self._data[n]]

\* the store's data after get: dict.get inserts nothing
data_after_get(self, section, key, default) == self._data

(***************************************************************************)
(* The config file loader.                                                 *)
(***************************************************************************)
\* get_config_file_path(): <app dir>/config.toml
get_config_file_path == "<app_dir>/config.toml"

\* the states of the config path
\* "empty": no sections and no keys; "invalid": text that violates the TOML
\* grammar; "directory": the path is a directory; "unreadable": permission
\* denied on open; "undecodable": bytes that are not UTF-8; "valid": a TOML
\* document with at least one name
FileKinds == {"absent", "empty", "invalid", "directory", "unreadable",
              "undecodable", "valid"}

\* a loader without the existence test
path_exists_always(f) == TRUE

\* config_path.exists()
path_exists(f) == f.kind # "absent"

\* open(config_path, "rb") and tomli.load(f): the exception raised, or the
\* parsed document
tomli_load(f) ==
    CASE f.kind = "valid" -> [exc |-> "none", data |-> f.doc]
      [] f.kind = "empty" -> [exc |-> "none", data |-> EmptyDict]
      [] f.kind = "invalid" -> [exc |-> "TOMLDecodeError", data |-> EmptyDict]
      [] f.kind = "directory" -> [exc |-> "IsADirectoryError", data |-> EmptyDict]
      [] f.kind = "unreadable" -> [exc |-> "PermissionError", data |-> EmptyDict]
      [] f.kind = "undecodable" -> [exc |-> "UnicodeDecodeError", data |-> EmptyDict]
      [] OTHER -> [exc |-> "FileNotFoundError", data |-> EmptyDict]

\* str(e) of the exception
str_e(e) == "<" \o e \o " message>"

\* the line printed for a TOMLDecodeError, piece by piece
parse_warning_asread(config_path, e) ==
    <<"Warning: ", "Could not read config file", " ", config_path, ": ", str_e(e)>>

parse_warning(config_path, e) ==
    <<"Warning: ", "Could not parse config file", " ", config_path, ": ", str_e(e)>>

\* the line printed for any other exception, with the parse branch's text
read_warning_asparse(config_path, e) ==
    <<"Warning: ", "Could not parse config file", " ", config_path, ": ", str_e(e)>>

read_warning(config_path, e) ==
    <<"Warning: ", "Could not read config file", " ", config_path, ": ", str_e(e)>>

\* a loader that swallows the exception without printing
load_body_silent(f) ==
    LET r == tomli_load(f)
    IN  [config_data |-> IF r.exc = "none" THEN r.data ELSE EmptyDict,
         printed |-> <<>>]

\* the body of "if config_path.exists():": what config_data is bound to and
\* what is printed
load_body(f) ==
    LET r == tomli_load(f)
        config_path == get_config_file_path
    IN  CASE r.exc = "none" -> [config_data |-> r.data, printed |-> <<>>]
          [] r.exc = "TOMLDecodeError" ->
                [config_data |-> EmptyDict,
                 printed |-> <<parse_warning(config_path, r.exc)>>]
          [] OTHER ->
                [config_data |-> EmptyDict,
                 printed |-> <<read_warning(config_path, r.exc)>>]

\* load_config()
load_config ==
    /\ pc = "start"
    /\ IF path_exists(fs)
       THEN /\ config' = WikibeeConfig(load_body(fs).config_data)
            /\ stdout' = stdout \o load_body(fs).printed
       ELSE /\ config' = WikibeeConfig(EmptyDict)
            /\ stdout' = stdout
    /\ pc' = "loaded"
    /\ UNCHANGED <<fs, cli, env, stderr, exc, resolved, logLevel, logWrites,
                   logReads, getLog>>

(***************************************************************************)
(* Text and coercion (spec.md 4.4, type coercion policy).                  *)
(***************************************************************************)
LowerOf == [A |-> "a", B |-> "b", C |-> "c", D |-> "d", E |-> "e", F |-> "f",
            G |-> "g", H |-> "h", I |-> "i", J |-> "j", K |-> "k", L |-> "l",
            M |-> "m", N |-> "n", O |-> "o", P |-> "p", Q |-> "q", R |-> "r",
            S |-> "s", T |-> "t", U |-> "u", V |-> "v", W |-> "w", X |-> "x",
            Y |-> "y", Z |-> "z"]

\* case folding of a text, character by character
lower(t) == [n \in 1..Len(t) |-> IF t[n] \in DOMAIN LowerOf THEN LowerOf[t[n]] ELSE t[n]]

DigitOf == ("0" :> 0) @@ ("1" :> 1) @@ ("2" :> 2) @@ ("3" :> 3) @@ ("4" :> 4) @@
           ("5" :> 5) @@ ("6" :> 6) @@ ("7" :> 7) @@ ("8" :> 8) @@ ("9" :> 9)

RECURSIVE digits_value(_)
digits_value(t) ==
    IF t = <<>> THEN 0
    ELSE 10 * digits_value(SubSeq(t, 1, Len(t) - 1)) + DigitOf[t[Len(t)]]

\* base-10 parse of a text: an optional minus sign, then one or more digits
parse_int(t) ==
    LET neg == Len(t) > 0 /\ t[1] = "-"
        ds == IF neg THEN SubSeq(t, 2, Len(t)) ELSE t
    IN  IF Len(ds) > 0 /\ \A n \in 1..Len(ds) : ds[n] \in DOMAIN DigitOf
        THEN [ok |-> TRUE, val |-> IntV(IF neg THEN 0 - digits_value(ds) ELSE digits_value(ds))]
        ELSE [ok |-> FALSE, val |-> None]

TrueWords == {<<"1">>, <<"t", "r", "u", "e">>, <<"y", "e", "s">>, <<"o", "n">>}
FalseWords == {<<"0">>, <<"f", "a", "l", "s", "e">>, <<"n", "o">>, <<"o", "f", "f">>, <<>>}

\* textual boolean, case-insensitive; any other text is a coercion error
parse_bool(t) ==
    CASE lower(t) \in TrueWords -> [ok |-> TRUE, val |-> BoolV(TRUE)]
      [] lower(t) \in FalseWords -> [ok |-> TRUE, val |-> BoolV(FALSE)]
      [] OTHER -> [ok |-> FALSE, val |-> None]

\* a source value as a value of the field's type, or a coercion error
coerce(type, v) ==
    CASE v.tag = type -> [ok |-> TRUE, val |-> v]
      [] v.tag = "str" /\ type = "int" -> parse_int(v.s)
      [] v.tag = "str" /\ type = "bool" -> parse_bool(v.s)
      [] OTHER -> [ok |-> FALSE, val |-> None]

(***************************************************************************)
(* The settings resolver (spec.md 4.4).                                    *)
(***************************************************************************)
Fields == {"output_dir", "retries", "no_save", "verbose", "yolo",
           "search_limit", "tts_server_url"}

FieldType == [output_dir |-> "str", retries |-> "int", no_save |-> "bool",
              verbose |-> "bool", yolo |-> "bool", search_limit |-> "int",
              tts_server_url |-> "str"]

\* the (section, key) of each field in the file; the alias table is the two
\* entries whose key is not the field's name
SectionOf == [output_dir |-> "general", retries |-> "general",
              no_save |-> "general", verbose |-> "general", yolo |-> "general",
              search_limit |-> "search", tts_server_url |-> "tts"]

KeyOf == [output_dir |-> "output_dir", retries |-> "retries",
          no_save |-> "no_save", verbose |-> "verbose", yolo |-> "auto_select",
          search_limit |-> "search_limit", tts_server_url |-> "server_url"]

\* the environment variable of each field: the prefix and the name in upper case
EnvVar == [output_dir |-> "WIKIBEE_OUTPUT_DIR", retries |-> "WIKIBEE_RETRIES",
           no_save |-> "WIKIBEE_NO_SAVE", verbose |-> "WIKIBEE_VERBOSE",
           yolo |-> "WIKIBEE_YOLO", search_limit |-> "WIKIBEE_SEARCH_LIMIT",
           tts_server_url |-> "WIKIBEE_TTS_SERVER_URL"]

DefaultRetries == 3
DefaultSearchLimit == 10

\* the hardcoded defaults
HardcodedDefault == [output_dir |-> None, retries |-> IntV(DefaultRetries),
                     no_save |-> BoolV(FALSE), verbose |-> BoolV(FALSE),
                     yolo |-> BoolV(FALSE), search_limit |-> IntV(DefaultSearchLimit),
                     tts_server_url |-> None]

\* step 2: the environment variable, if present and non-empty and coercible
from_env(environment, f) ==
    LET e == environment[EnvVar[f]]
    IN  IF e.set /\ e.s # <<>> THEN coerce(FieldType[f], StrV(e.s))
        ELSE [ok |-> FALSE, val |-> None]

\* step 3: the store's value for the field's (section, key), if coercible;
\* an exception of get propagates
from_file(store, f) ==
    LET r == get(store, SectionOf[f], KeyOf[f], None)
    IN  IF r.exc # "none" THEN [exc |-> r.exc, ok |-> FALSE, val |-> None]
        ELSE IF r.val = None THEN [exc |-> "none", ok |-> FALSE, val |-> None]
        ELSE [exc |-> "none"] @@ coerce(FieldType[f], r.val)

\* one field: the first source, in the order CLI, environment, file, default,
\* that supplies a value
resolve_field(cli_flags, environment, store, f) ==
    IF cli_flags[f].explicit THEN [exc |-> "none", val |-> cli_flags[f].v]
    ELSE IF from_env(environment, f).ok
         THEN [exc |-> "none", val |-> from_env(environment, f).val]
         ELSE LET r == from_file(store, f)
              IN  IF r.exc # "none" THEN [exc |-> r.exc, val |-> None]
                  ELSE IF r.ok THEN [exc |-> "none", val |-> r.val]
                  ELSE [exc |-> "none", val |-> HardcodedDefault[f]]

NoSettings == [f \in Fields |-> None]

\* resolve(cli_flags, environment, store): the settings, or the exception that
\* a get raised
resolve ==
    /\ pc = "loaded"
    /\ LET r == [f \in Fields |-> resolve_field(cli, env, config, f)]
       IN  IF \E f \in Fields : r[f].exc # "none"
           THEN /\ exc' = r[CHOOSE f \in Fields : r[f].exc # "none"].exc
                /\ pc' = "crashed"
                /\ resolved' = resolved
           ELSE /\ resolved' = [f \in Fields |-> r[f].val]
                /\ pc' = "resolved"
                /\ exc' = exc
    /\ UNCHANGED <<fs, cli, env, config, stdout, stderr, logLevel, logWrites,
                   logReads, getLog>>

(***************************************************************************)
(* The startup side-effect applier (spec.md 4.5) and the readers of the    *)
(* log level.                                                              *)
(***************************************************************************)
\* an applier that sets the level whatever verbose is
apply_writes_always(settings) == 1

\* how many times the applier calls setLevel(DEBUG): once if verbose, else never
apply_writes(settings) == IF settings["verbose"].b THEN 1 ELSE 0

\* logging.getLogger().setLevel(logging.DEBUG) if resolved verbose
apply_verbose ==
    /\ pc = "resolved"
    /\ logWrites' = logWrites + apply_writes(resolved)
    /\ logLevel' = IF apply_writes(resolved) > 0 THEN "debug" ELSE logLevel
    /\ pc' = "applied"
    /\ UNCHANGED <<fs, cli, env, config, stdout, stderr, exc, resolved,
                   logReads, getLog>>

\* another subsystem reads the log level; the work that does so starts after
\* the startup sequence
read_log_level ==
    /\ pc = "applied"
    /\ logReads < MaxReads
    /\ logReads' = logReads + 1
    /\ UNCHANGED <<fs, cli, env, pc, config, stdout, stderr, exc, resolved,
                   logLevel, logWrites, getLog>>

(***************************************************************************)
(* A client of the store: get calls with any section, key and default.     *)
(***************************************************************************)
GetSections == {"general", "search", "nosuch"}
GetKeys == {"retries", "no_save", "nokey"}
GetDefaults == {None, IntV(DefaultRetries)}

get_call ==
    /\ pc = "loaded"
    /\ Len(getLog) < MaxGets
    /\ \E section \in GetSections, key \in GetKeys, default \in GetDefaults :
         /\ getLog' = Append(getLog,
                [section |-> section, key |-> key, default |-> default,
                 result |-> get(config, section, key, default)])
         /\ config' = WikibeeConfig(data_after_get(config, section, key, default))
    /\ UNCHANGED <<fs, cli, env, pc, stdout, stderr, exc, resolved, logLevel,
                   logWrites, logReads>>

(***************************************************************************)
(* Inputs: the command line, the environment and the config path, as the   *)
(* tests set them up before the tool runs.                                 *)
(***************************************************************************)
\* the values each flag, variable, key and top-level name is tried with
CliOptions ==
    [output_dir |-> {StrV(<<"/", "c", "l", "i">>)},
     retries |-> {IntV(2)},
     no_save |-> {BoolV(TRUE)},
     verbose |-> {BoolV(TRUE), BoolV(FALSE)},
     yolo |-> {BoolV(TRUE)},
     search_limit |-> {IntV(4)},
     tts_server_url |-> {StrV(<<"c">>)}]

EnvOptions ==
    [output_dir |-> {<<>>, <<"/", "e", "n", "v">>},
     retries |-> {<<>>, <<"1", "2">>, <<"a", "b", "c">>},
     no_save |-> {<<"Y", "E", "S">>, <<"N", "o">>, <<"m", "a", "y", "b", "e">>},
     verbose |-> {<<>>, <<"O", "n">>, <<"0">>},
     yolo |-> {<<"T", "r", "u", "e">>, <<"o", "f", "f">>, <<"1">>},
     search_limit |-> {<<"-", "7">>, <<"1", "x">>},
     tts_server_url |-> {<<"e">>}]

FileKeys == {<<"general", "output_dir">>, <<"general", "retries">>,
             <<"general", "no_save">>, <<"general", "verbose">>,
             <<"general", "auto_select">>, <<"general", "yolo">>,
             <<"tts", "server_url">>, <<"search", "search_limit">>}

FileOptions(sk) ==
    CASE sk = <<"general", "output_dir">> -> {StrV(<<"/", "c", "f", "g">>), IntV(1)}
      [] sk = <<"general", "retries">> -> {IntV(7), StrV(<<"a", "b", "c">>)}
      [] sk = <<"general", "no_save">> -> {BoolV(TRUE), BoolV(FALSE)}
      [] sk = <<"general", "verbose">> -> {BoolV(TRUE), IntV(1)}
      [] sk = <<"general", "auto_select">> -> {BoolV(TRUE), BoolV(FALSE)}
      [] sk = <<"general", "yolo">> -> {BoolV(TRUE)}
      [] sk = <<"tts", "server_url">> -> {StrV(<<"f">>)}
      [] sk = <<"search", "search_limit">> -> {IntV(5), StrV(<<"9">>)}

TopNames == {"general", "tts", "search"}
ScalarOptions == [general |-> {IntV(5)}, tts |-> {StrV(<<"x">>)}, search |-> {IntV(5)}]

\* how many keys and scalar names the file holds
Entries(name) ==
    IF fs.kind # "valid" \/ name \notin DOMAIN fs.doc THEN 0
    ELSE IF fs.doc[name].isTable THEN Cardinality(DOMAIN fs.doc[name].kv) ELSE 1

FileEntries == Entries("general") + Entries("tts") + Entries("search")

Supplied ==
    Cardinality({f \in Fields : cli[f].explicit})
    + Cardinality({name \in DOMAIN env : env[name].set})
    + FileEntries

\* the document with one more binding
WithName(doc, name, entry) ==
    [n \in DOMAIN doc \cup {name} |-> IF n = name THEN entry ELSE doc[n]]

WithKey(doc, section, key, v) ==
    LET kv == IF section \in DOMAIN doc THEN doc[section].kv ELSE EmptyDict
    IN  WithName(doc, section,
                 Table([k \in DOMAIN kv \cup {key} |-> IF k = key THEN v ELSE kv[k]]))

\* runner.invoke(app, [..., flag, value]): a flag is passed explicitly
pass_flag(budget) ==
    /\ pc = "start"
    /\ Supplied < budget
    /\ \E f \in Fields :
         /\ ~cli[f].explicit
         /\ \E v \in CliOptions[f] :
              cli' = [cli EXCEPT ![f] = [explicit |-> TRUE, v |-> v]]
    /\ UNCHANGED <<fs, env, pc, config, stdout, stderr, exc, resolved,
                   logLevel, logWrites, logReads, getLog>>

\* patch.dict(os.environ, {name: text}): a variable is set
set_env(budget) ==
    /\ pc = "start"
    /\ Supplied < budget
    /\ \E f \in Fields :
         /\ ~env[EnvVar[f]].set
         /\ \E t \in EnvOptions[f] :
              env' = [env EXCEPT ![EnvVar[f]] = [set |-> TRUE, s |-> t]]
    /\ UNCHANGED <<fs, cli, pc, config, stdout, stderr, exc, resolved,
                   logLevel, logWrites, logReads, getLog>>

\* config_path.write_text(...): the file gets a key under a section header
write_key(budget) ==
    /\ pc = "start"
    /\ fs.kind \in {"empty", "valid"}
    /\ FileEntries < budget /\ Supplied < budget
    /\ \E sk \in FileKeys :
         /\ sk[1] \in DOMAIN fs.doc => /\ fs.doc[sk[1]].isTable
                                       /\ sk[2] \notin DOMAIN fs.doc[sk[1]].kv
         /\ \E v \in FileOptions(sk) :
              fs' = [kind |-> "valid", doc |-> WithKey(fs.doc, sk[1], sk[2], v)]
    /\ UNCHANGED <<cli, env, pc, config, stdout, stderr, exc, resolved,
                   logLevel, logWrites, logReads, getLog>>

\* the file binds a top-level name to a value that is not a table
write_scalar(budget) ==
    /\ pc = "start"
    /\ fs.kind \in {"empty", "valid"}
    /\ FileEntries < budget /\ Supplied < budget
    /\ \E name \in TopNames :
         /\ name \notin DOMAIN fs.doc
         /\ \E v \in ScalarOptions[name] :
              fs' = [kind |-> "valid", doc |-> WithName(fs.doc, name, Scalar(v))]
    /\ UNCHANGED <<cli, env, pc, config, stdout, stderr, exc, resolved,
                   logLevel, logWrites, logReads, getLog>>

\* before the tool runs: no flag, no variable, and the config path in one of
\* its states without content
Init ==
    /\ \E k \in FileKinds \ {"valid"} : fs = [kind |-> k, doc |-> EmptyDict]
    /\ cli = [f \in Fields |-> [explicit |-> FALSE, v |-> None]]
    /\ env = [name \in {EnvVar[f] : f \in Fields} |-> [set |-> FALSE, s |-> <<>>]]
    /\ pc = "start"
    /\ config = WikibeeConfig(EmptyDict)
    /\ stdout = <<>>
    /\ stderr = <<>>
    /\ exc = "none"
    /\ resolved = NoSettings
    /\ logLevel = "warning"
    /\ logWrites = 0
    /\ logReads = 0
    /\ getLog = <<>>

\* one run of the command line tool
Next ==
    \/ pass_flag(MaxSupplied)
    \/ set_env(MaxSupplied)
    \/ write_key(MaxSupplied)
    \/ write_scalar(MaxSupplied)
    \/ load_config
    \/ resolve
    \/ apply_verbose
    \/ read_log_level

Spec == Init /\ [][Next]_vars

\* a client that loads the store and calls get on it
NextStore ==
    \/ write_key(MaxKeys)
    \/ write_scalar(MaxKeys)
    \/ load_config
    \/ get_call

SpecStore == Init /\ [][NextStore]_vars

(***************************************************************************)
(* What the inputs say, read off the inputs themselves.                    *)
(***************************************************************************)
\* the file's own value of a field: the document's entry at the field's
\* (section, key), when the file is a valid document that has one
FileHas(f) ==
    /\ fs.kind = "valid"
    /\ SectionOf[f] \in DOMAIN fs.doc
    /\ fs.doc[SectionOf[f]].isTable
    /\ KeyOf[f] \in DOMAIN fs.doc[SectionOf[f]].kv

FileValue(f) == fs.doc[SectionOf[f]].kv[KeyOf[f]]

EnvHas(f) == env[EnvVar[f]].set /\ env[EnvVar[f]].s # <<>>

EnvValue(f) == StrV(env[EnvVar[f]].s)

\* the value of the highest-precedence source that supplies one of the
\* field's type
Expected(f) ==
    IF cli[f].explicit THEN cli[f].v
    ELSE IF EnvHas(f) /\ coerce(FieldType[f], EnvValue(f)).ok
         THEN coerce(FieldType[f], EnvValue(f)).val
         ELSE IF FileHas(f) /\ coerce(FieldType[f], FileValue(f)).ok
              THEN coerce(FieldType[f], FileValue(f)).val
              ELSE HardcodedDefault[f]

NoCli == \A f \in Fields : ~cli[f].explicit
NoEnv == \A name \in DOMAIN env : ~env[name].set
ResolveRan == pc \in {"resolved", "applied", "crashed"}
Resolved == pc \in {"resolved", "applied"}
Loaded == pc # "start"
Contains(line, piece) == \E n \in 1..Len(line) : line[n] = piece
ReadErrorKinds == {"directory", "unreadable", "undecodable"}

(***************************************************************************)
(* The claims.                                                             *)
(***************************************************************************)
\* C1: for every field and every combination of the four sources, resolution
\* yields the value of the highest-precedence source that supplies one: the
\* CLI flag if explicitly passed, else the environment variable if set and
\* non-empty, else the file's value, else the hardcoded default.
C1_Precedence ==
    ResolveRan => (Resolved /\ \A f \in Fields : resolved[f] = Expected(f))

\* C1, for the runs in which resolve returns: the settings are the expected ones.
C1_PrecedenceWhenResolved ==
    Resolved => \A f \in Fields : resolved[f] = Expected(f)

\* C2: for every state of the config path load_config returns a WikibeeConfig
\* and every later get returns a value; no exception propagates out of
\* load_config or get.
C2_NeverRaises ==
    /\ Loaded => DOMAIN config = {"_data"}
    /\ \A n \in 1..Len(getLog) : getLog[n].result.exc = "none"

\* C3: a file of syntactically invalid TOML gives exactly one warning, which
\* contains 'Could not parse config file' and the path, and a store equal to
\* the missing file's (empty data); the settings are those of an empty store.
C3_InvalidFileWarns ==
    (fs.kind = "invalid" /\ Loaded) =>
        /\ Len(stdout) = 1
        /\ Contains(stdout[1], "Could not parse config file")
        /\ Contains(stdout[1], get_config_file_path)
        /\ config = WikibeeConfig(EmptyDict)
        /\ pc # "crashed"
        /\ Resolved =>
             resolved = [f \in Fields |->
                            resolve_field(cli, env, WikibeeConfig(EmptyDict), f).val]

C3_Witness ==
    /\ fs.kind = "invalid"
    /\ pc = "resolved"
    /\ Len(stdout) = 1
    /\ config._data = EmptyDict

\* C4: an absent or structurally empty file gives a store with empty data and
\* no warning; with no environment variable and no explicit CLI flag every
\* resolved field is its hardcoded default.
C4_AbsentOrEmptyDefaults ==
    (fs.kind \in {"absent", "empty"} /\ Loaded) =>
        /\ config._data = EmptyDict
        /\ stdout = <<>>
        /\ pc # "crashed"
        /\ (NoCli /\ NoEnv /\ Resolved) => resolved = HardcodedDefault

C4_Witness ==
    /\ fs.kind = "absent"
    /\ NoCli /\ NoEnv
    /\ pc = "resolved"
    /\ resolved = HardcodedDefault
    /\ stdout = <<>>

\* C5 as stated: a file that exists but cannot be read for a reason other
\* than a syntax error gives empty data and exactly one line, 'Warning: Could
\* not parse config file <path>: <error message>'.
C5_ReadErrorWarnsAsParse ==
    (fs.kind \in ReadErrorKinds /\ Loaded) =>
        /\ config._data = EmptyDict
        /\ stdout = << <<"Warning: ", "Could not parse config file", " ",
                         get_config_file_path, ": ", str_e(tomli_load(fs).exc)>> >>

\* C5 as amended: such a file gives empty data and exactly one line, 'Warning:
\* Could not read config file <path>: <error message>'.
C5_ReadErrorWarnsAsRead ==
    (fs.kind \in ReadErrorKinds /\ Loaded) =>
        /\ config._data = EmptyDict
        /\ stdout = << <<"Warning: ", "Could not read config file", " ",
                         get_config_file_path, ": ", str_e(tomli_load(fs).exc)>> >>

C5_Witness ==
    /\ fs.kind = "directory"
    /\ pc = "loaded"
    /\ Len(stdout) = 1
    /\ Contains(stdout[1], "Could not read config file")

\* C6 as stated: the loader never writes to any output stream.
C6_LoaderNeverWrites == stdout = <<>> /\ stderr = <<>>

\* C6 as amended: the loader prints its warning itself, on stdout: one line
\* when the file exists and fails to parse or to be read, none otherwise; it
\* never writes to stderr and returns the store alone.
C6_LoaderPrintsToStdout ==
    Loaded =>
        /\ stderr = <<>>
        /\ Len(stdout) = IF fs.kind \in ReadErrorKinds \cup {"invalid"} THEN 1 ELSE 0
        /\ DOMAIN config = {"_data"}

C6_Witness ==
    /\ fs.kind = "invalid"
    /\ pc = "loaded"
    /\ Len(stdout) = 1
    /\ stderr = <<>>

\* C7: on a store whose sections are all mappings, get returns the default
\* when the section or the key is absent and otherwise exactly the value
\* stored at data[section][key], a stored false or 0 included.
C7_GetReturnsStoredOrDefault ==
    (\A s \in DOMAIN config._data : config._data[s].isTable) =>
        \A n \in 1..Len(getLog) :
            LET g == getLog[n]
                stored == /\ g.section \in DOMAIN config._data
                          /\ g.key \in DOMAIN config._data[g.section].kv
            IN  /\ g.result.exc = "none"
                /\ g.result.val = IF stored THEN config._data[g.section].kv[g.key]
                                  ELSE g.default

C7_Witness ==
    \E n \in 1..Len(getLog) :
        /\ getLog[n].section = "general"
        /\ getLog[n].key = "no_save"
        /\ getLog[n].default = IntV(DefaultRetries)
        /\ getLog[n].result.val = BoolV(FALSE)
        /\ fs.doc["general"].kv["no_save"] = BoolV(FALSE)

\* the file sets general.auto_select = true and neither the flag nor the
\* variable of yolo is given
AutoSelectSet ==
    /\ fs.kind = "valid"
    /\ "general" \in DOMAIN fs.doc
    /\ fs.doc["general"].isTable
    /\ "auto_select" \in DOMAIN fs.doc["general"].kv
    /\ fs.doc["general"].kv["auto_select"] = BoolV(TRUE)
    /\ ~cli["yolo"].explicit
    /\ ~env[EnvVar["yolo"]].set

\* C8: general.auto_select is the file-layer source of yolo: with no CLI flag
\* and no environment variable for it, auto_select = true in the file yields
\* resolved yolo = true, and the settings have no field named auto_select.
C8_AutoSelectAlias ==
    (AutoSelectSet /\ ResolveRan) =>
        /\ Resolved
        /\ resolved["yolo"] = BoolV(TRUE)
        /\ "auto_select" \notin DOMAIN resolved

\* C8, for the runs in which resolve returns.
C8_AutoSelectAliasWhenResolved ==
    (AutoSelectSet /\ Resolved) =>
        /\ resolved["yolo"] = BoolV(TRUE)
        /\ "auto_select" \notin DOMAIN resolved

\* C9: the log threshold is set to debug exactly once when resolved verbose
\* is true and never written when it is false; the write comes after
\* resolution and before any other subsystem reads the level.
C9_VerboseAppliedOnce ==
    /\ pc # "applied" => (logWrites = 0 /\ logReads = 0 /\ logLevel = "warning")
    /\ pc = "applied" =>
         IF resolved["verbose"] = BoolV(TRUE)
         THEN logWrites = 1 /\ logLevel = "debug"
         ELSE logWrites = 0 /\ logLevel = "warning"

C9_Witness ==
    /\ pc = "applied"
    /\ resolved["verbose"] = BoolV(TRUE)
    /\ logWrites = 1
    /\ logReads = MaxReads

\* get calls with the same arguments have the same result
SameArgsSameResult ==
    \A m, n \in 1..Len(getLog) :
        (/\ getLog[m].section = getLog[n].section
         /\ getLog[m].key = getLog[n].key
         /\ getLog[m].default = getLog[n].default)
        => getLog[m].result = getLog[n].result

\* C10: the store is read-only: a get call, whatever its section, key and
\* default, leaves the store's data as it was, and two get calls with the
\* same arguments return the same value.
C10_StoreReadOnly ==
    [][pc = "loaded" => (config' = config /\ SameArgsSameResult')]_vars

C10_Witness ==
    /\ Len(getLog) = 2
    /\ getLog[1].section = "nosuch"
    /\ getLog[2].section = getLog[1].section
    /\ getLog[2].key = getLog[1].key
    /\ getLog[2].default = getLog[1].default
    /\ fs.kind = "valid"
    /\ config._data = fs.doc

====
